---- MODULE Spec2Model ----
(***************************************************************************)
(* Model of src/project.rs: RustAnalyzerProject, the builder of            *)
(* rust-project.json.                                                      *)
(*                                                                         *)
(* Strings the code inspects or builds (paths, environment values, the     *)
(* stdout of rustc) are sequences of one-character strings, so that        *)
(* extension(), starts_with(), split_whitespace() and Path::join() are     *)
(* computed character by character as the library computes them.  The      *)
(* element "<FF>" stands for a byte that is not valid UTF-8 and             *)
(* "<U+FFFD>" for the replacement character; "<0B>", "<0C>" and the        *)
(* "<U+....>" elements stand for the characters of those code points.      *)
(* Literals the code only stores ("2021", "test", "tokio", the feature     *)
(* flags) are TLA+ strings.                                                *)
(***************************************************************************)
EXTENDS Integers, Sequences, FiniteSets, TLC

VARIABLES
    env,          \* the process environment: RUST_SRC_PATH and HOME
    rustc,        \* what `rustc --print sysroot` does when it is spawned
    tree,         \* the entries that exist below ./exercises
    sysroot_src,  \* RustAnalyzerProject.sysroot_src
    cargo_tokio,  \* RustAnalyzerProject.cargo_tokio
    crates,       \* RustAnalyzerProject.crates
    disk,         \* the contents of ./rust-project.json
    nscan,        \* exercises_to_json calls made on the current object
    nrun,         \* RustAnalyzerProject objects constructed so far
    scanned,      \* what glob yielded to the latest exercises_to_json call
    by_methods,   \* the object came from new() and only its methods changed it
    last          \* the latest call: its name, whether it returned Ok, whether it
                  \* spawned rustc, whether it panicked, what it printed, whether
                  \* it replaced a whole document on disk

vars == <<env, rustc, tree, sysroot_src, cargo_tokio, crates, disk, nscan, nrun,
          scanned, by_methods, last>>

----------------------------------------------------------------------------
(* Bounds of the model. *)

\* exercises_to_json calls explored on one object
MaxScans == 2

\* runs of the generator (objects constructed one after another) explored
MaxRuns == 2

----------------------------------------------------------------------------
(* Strings. *)

BadByte == "<FF>"
ReplChar == "<U+FFFD>"
Sep == "/"
Dot == "."
\* char::is_whitespace: the characters with the Unicode White_Space property
Whitespace ==
    { "\t", "\n", "<0B>", "<0C>", "\r", " ", "<U+0085>", "<U+00A0>", "<U+1680>",
      "<U+2000>", "<U+2001>", "<U+2002>", "<U+2003>", "<U+2004>", "<U+2005>",
      "<U+2006>", "<U+2007>", "<U+2008>", "<U+2009>", "<U+200A>", "<U+2028>",
      "<U+2029>", "<U+202F>", "<U+205F>", "<U+3000>" }

Range(s) == {s[i] : i \in DOMAIN s}

\* String::from_utf8_lossy and Path::display: invalid bytes become U+FFFD
Lossy(s) == [i \in DOMAIN s |-> IF s[i] = BadByte THEN ReplChar ELSE s[i]]

\* str::starts_with
StartsWith(s, p) == Len(s) >= Len(p) /\ SubSeq(s, 1, Len(p)) = p

None == [some |-> FALSE, val |-> <<>>]
Some(v) == [some |-> TRUE, val |-> v]

\* s[from..] up to the next separator
RECURSIVE UpToSep(_, _)
UpToSep(s, from) ==
    IF from > Len(s) \/ s[from] = Sep THEN <<>>
    ELSE <<s[from]>> \o UpToSep(s, from + 1)

\* the pieces of s between separators, empty pieces included
RECURSIVE SplitSep(_, _)
SplitSep(s, from) ==
    LET piece == UpToSep(s, from)
        next == from + Len(piece)
    IN  IF next > Len(s) THEN <<piece>>
        ELSE <<piece>> \o SplitSep(s, next + 1)

\* Path::file_name: the last component, if it is a normal one.  Empty pieces
\* and "." pieces are no components of their own (a leading "." is CurDir).
file_name(path) ==
    LET parts == SplitSep(path, 1)
        real == {i \in DOMAIN parts : parts[i] # <<>> /\ parts[i] # <<Dot>>}
    IN  IF real = {} THEN None
        ELSE LET i == CHOOSE j \in real : \A k \in real : k <= j
             IN  IF parts[i] = <<Dot, Dot>> THEN None ELSE Some(parts[i])

\* Path::extension: the part of file_name after its final ".", unless there
\* is no "." or nothing before it
extension(path) ==
    LET f == file_name(path)
    IN  IF ~f.some THEN None
        ELSE LET name == f.val
                 dots == {i \in DOMAIN name : name[i] = Dot}
             IN  IF dots = {} THEN None
                 ELSE LET k == CHOOSE j \in dots : \A m \in dots : m <= j
                      IN  IF k = 1 THEN None
                          ELSE Some(SubSeq(name, k + 1, Len(name)))

\* Path::join with a relative segment
PathJoin(base, seg) ==
    IF base = <<>> THEN seg
    ELSE IF base[Len(base)] = Sep THEN base \o seg
    ELSE base \o <<Sep>> \o seg

\* str::split_whitespace().next()
RECURSIVE SkipWs(_)
SkipWs(s) == IF s # <<>> /\ Head(s) \in Whitespace THEN SkipWs(Tail(s)) ELSE s

RECURSIVE TakeToken(_)
TakeToken(s) ==
    IF s = <<>> \/ Head(s) \in Whitespace THEN <<>>
    ELSE <<Head(s)>> \o TakeToken(Tail(s))

FirstToken(s) ==
    LET t == TakeToken(SkipWs(s))
    IN  IF t = <<>> THEN None ELSE Some(t)

\* std::env::var: Err when the variable is unset or is not valid Unicode
EnvVar(v) ==
    IF v.set /\ BadByte \notin Range(v.val) THEN Some(v.val) ELSE None

----------------------------------------------------------------------------
(* Literals of project.rs. *)

RS == <<"r","s">>
ASYNC_PREFIX == <<"e","x","e","r","c","i","s","e","s","/","a","s","y","n","c">>
EDITION == "2021"
TEST_CFG == <<"test">>
TOKIO_NAME == "tokio"
TOKIO_INDEX == 0
TOKIO_CFG ==
    << "feature=\"fs\"", "feature=\"io-util\"", "feature=\"io-std\"",
       "feature=\"macros\"", "feature=\"net\"", "feature=\"parking_lot\"",
       "feature=\"process\"", "feature=\"rt\"", "feature=\"rt-multi-thread\"",
       "feature=\"signal\"", "feature=\"sync\"", "feature=\"time\"" >>
HOME_FALLBACK == <<"~","/">>
TOKIO_SEGMENTS ==
    << <<".","c","a","r","g","o">>, <<"r","e","g","i","s","t","r","y">>, <<"s","r","c">>, <<"g","i","t","h","u","b",".","c","o","m","-","1","e","c","c","6","2","9","9","d","b","9","e","c","8","2","3">>,
       <<"t","o","k","i","o","-","1",".","2","8",".","1">>, <<"s","r","c">>, <<"l","i","b",".","r","s">> >>
SYSROOT_SEGMENTS == << <<"l","i","b">>, <<"r","u","s","t","l","i","b">>, <<"s","r","c">>, <<"r","u","s","t">>, <<"l","i","b","r","a","r","y">> >>
PRINT_PREFIX == <<"D","e","t","e","r","m","i","n","e","d"," ","t","o","o","l","c","h","a","i","n",":"," ">>
PRINT_SUFFIX == <<"\n","\n">>

RECURSIVE JoinAll(_, _)
JoinAll(base, segs) ==
    IF segs = <<>> THEN base
    ELSE JoinAll(PathJoin(base, Head(segs)), Tail(segs))

----------------------------------------------------------------------------
(* The operations of RustAnalyzerProject as functions of the fields. *)

DepData(index, name) == [crate_index |-> index, name |-> name]

Crate(root, deps, cfg) ==
    [root_module |-> root, edition |-> EDITION, deps |-> deps, cfg |-> cfg]

\* the prefix test of path_to_json
IsAsyncPath(path) == StartsWith(Lossy(path), ASYNC_PREFIX)

\* DepsFor without the prefix rule: no unit gets the dependency
DepsFor_NoDeps(path) == <<>>

\* DepsFor pointing one past the synthetic unit
DepsFor_IndexOne(path) ==
    IF IsAsyncPath(path) THEN <<DepData(1, TOKIO_NAME)>> ELSE <<>>

\* the dependency list path_to_json gives a unit
DepsFor(path) ==
    IF IsAsyncPath(path) THEN <<DepData(TOKIO_INDEX, TOKIO_NAME)>> ELSE <<>>

\* the test path_to_json applies before it adds a unit
HasRsExtension(path) ==
    LET ext == extension(path) IN ext.some /\ ext.val = RS

\* path_to_json: the crates after the call (it always returns Ok)
path_to_json(cs, path) ==
    IF HasRsExtension(path)
    THEN Append(cs, Crate(Lossy(path), DepsFor(path), TEST_CFG))
    ELSE cs

\* the unit add_tokio_to_crates pushes
TokioCrate(tokio_path) == Crate(tokio_path, <<>>, TOKIO_CFG)

add_tokio_to_crates(cs, tokio_path) == Append(cs, TokioCrate(tokio_path))

\* ScanLoop that notes the GlobError and goes on with the entries after it
RECURSIVE ScanLoop_SkipErrors(_, _)
ScanLoop_SkipErrors(cs, items) ==
    IF items = <<>> THEN [crates |-> cs, ok |-> TRUE]
    ELSE IF Head(items).err
    THEN [crates |-> ScanLoop_SkipErrors(cs, Tail(items)).crates, ok |-> FALSE]
    ELSE ScanLoop_SkipErrors(path_to_json(cs, Head(items).path), Tail(items))

\* the loop of exercises_to_json over what glob yields: `path?` returns at the
\* first GlobError, leaving the units pushed so far
RECURSIVE ScanLoop(_, _)
ScanLoop(cs, items) ==
    IF items = <<>> THEN [crates |-> cs, ok |-> TRUE]
    ELSE IF Head(items).err THEN [crates |-> cs, ok |-> FALSE]
    ELSE ScanLoop(path_to_json(cs, Head(items).path), Tail(items))

\* exercises_to_json pushing the synthetic unit after the scan
exercises_to_json_TokioLast(cs, tokio_path, items) ==
    LET r == ScanLoop(cs, items)
    IN  [crates |-> add_tokio_to_crates(r.crates, tokio_path), ok |-> r.ok]

exercises_to_json(cs, tokio_path, items) ==
    ScanLoop(add_tokio_to_crates(cs, tokio_path), items)

\* what a get_sysroot_src call did: the new sysroot_src, whether it returned
\* Ok, whether rustc was spawned, whether it panicked instead of returning,
\* and the text it wrote to the standard output of the program
Outcome(src, ok, spawned, panicked, printed) ==
    [sysroot_src |-> src, ok |-> ok, spawned |-> spawned,
     panicked |-> panicked, printed |-> printed]

\* println!("Determined toolchain: {}\n", &toolchain)
ToolchainLine(toolchain) == PRINT_PREFIX \o toolchain \o PRINT_SUFFIX

\* The standard output of the program: it takes everything; or it is closed
\* (EBADF), which the standard library takes for a successful write of
\* nothing; or it takes room more characters and then fails every write.
Writable == [kind |-> "writable", room |-> 0]
Closed == [kind |-> "closed", room |-> 0]
Failing(room) == [kind |-> "failing", room |-> room]

\* the part of get_sysroot_src after rustc has run.  println! writes the line
\* before sysroot_src is assigned and panics when the write fails, with the
\* part of the line the standard output took already written.
AfterRustc(old, tc, out) ==
    LET text == Lossy(tc.stdout)
        tok == FirstToken(text)
        toolchain == IF tok.some THEN tok.val ELSE text
        line == ToolchainLine(toolchain)
        src == JoinAll(toolchain, SYSROOT_SEGMENTS)
    IN  CASE out.kind = "closed" -> Outcome(src, TRUE, TRUE, FALSE, <<>>)
          [] out.kind = "failing" /\ out.room < Len(line)
                -> Outcome(old, FALSE, TRUE, TRUE, SubSeq(line, 1, out.room))
          [] OTHER -> Outcome(src, TRUE, TRUE, FALSE, line)

\* get_sysroot_src on an object whose sysroot_src is old, in environment e,
\* with rustc behaving as tc and the standard output of the program as out
get_sysroot_src(old, e, tc, out) ==
    LET v == EnvVar(e.RUST_SRC_PATH)
    IN  IF v.some THEN Outcome(v.val, TRUE, FALSE, FALSE, <<>>)
        ELSE IF ~tc.spawns THEN Outcome(old, FALSE, TRUE, FALSE, <<>>)
        ELSE AfterRustc(old, tc, out)

get_cargo_tokio_path(e) ==
    LET v == EnvVar(e.HOME)
        home == IF v.some THEN v.val ELSE HOME_FALLBACK
    IN  JoinAll(home, TOKIO_SEGMENTS)

\* serde_json::to_vec(&self): cargo_tokio is skipped, crate_index is renamed
ToJson(src, cs) ==
    [sysroot_src |-> src,
     crates |-> [i \in DOMAIN cs |->
        [root_module |-> cs[i].root_module, edition |-> cs[i].edition,
         deps |-> [j \in DOMAIN cs[i].deps |->
                    [crate |-> cs[i].deps[j].crate_index,
                     name |-> cs[i].deps[j].name]],
         cfg |-> cs[i].cfg]]]

\* serde_json::from_str::<RustAnalyzerProject>: the derived Deserialize takes
\* any units and reads "crate" into crate_index
FromJsonCrates(json_crates) ==
    [i \in DOMAIN json_crates |->
        [root_module |-> json_crates[i].root_module,
         edition |-> json_crates[i].edition,
         deps |-> [j \in DOMAIN json_crates[i].deps |->
                    DepData(json_crates[i].deps[j].crate, json_crates[i].deps[j].name)],
         cfg |-> json_crates[i].cfg]]

\* ./rust-project.json: absent, holding a whole document, or holding no
\* document but some proper prefix (possibly nothing) of the bytes of one,
\* left by a write that failed after std::fs::write had truncated the file
NoFile == [exists |-> FALSE, whole |-> FALSE, json |-> ToJson(<<>>, <<>>)]
File(json) == [exists |-> TRUE, whole |-> TRUE, json |-> json]
Torn == [exists |-> TRUE, whole |-> FALSE, json |-> ToJson(<<>>, <<>>)]

----------------------------------------------------------------------------
(* The world the generator runs in. *)

Unset == [set |-> FALSE, val |-> <<>>]
SetTo(v) == [set |-> TRUE, val |-> v]

FAKE_SYSROOT == <<"/","t","m","p","/","f","a","k","e","-","s","y","s","r","o","o","t">>

\* values of RUST_SRC_PATH: unset, empty, a path, bytes that are not Unicode
RustSrcPaths == {Unset, SetTo(<<>>), SetTo(FAKE_SYSROOT), SetTo(<<"/","s","<FF>">>)}
Homes == {Unset, SetTo(<<"/","h">>)}

Spawned(status, out) == [spawns |-> TRUE, status |-> status, stdout |-> out]
NotSpawned == [spawns |-> FALSE, status |-> 0, stdout |-> <<>>]

\* stdout of rustc: a path and a newline, nothing, whitespace only, two
\* tokens after leading whitespace, a path ending in a separator, a path
\* after a form feed, a form feed alone, a no-break space inside the text
Stdouts ==
    { <<"/","r","\n">>, <<>>, <<" ","\n">>, <<" ","/","a"," ","/","b","\n">>, <<"/","r","/","\n">>,
      <<"<0C>","/","r","\n">>, <<"<0C>">>, <<"/","a","<U+00A0>","b","\n">> }
Rustcs == {NotSpawned} \cup {Spawned(st, out) : st \in {0, 1}, out \in Stdouts}

\* the standard output of the program: a terminal, closed, full, full after
\* five more characters
ProgramStdouts == {Writable, Closed, Failing(0), Failing(5)}

Entry(path, is_dir) == [path |-> path, is_dir |-> is_dir]
File_(path) == Entry(path, FALSE)
Dir_(path) == Entry(path, TRUE)

E_AsyncDir == Dir_(<<"e","x","e","r","c","i","s","e","s","/","a","s","y","n","c">>)
E_AsyncFoo == File_(<<"e","x","e","r","c","i","s","e","s","/","a","s","y","n","c","/","f","o","o",".","r","s">>)
E_BasicsBar == File_(<<"e","x","e","r","c","i","s","e","s","/","b","a","s","i","c","s","/","b","a","r",".","r","s">>)
E_Readme == File_(<<"e","x","e","r","c","i","s","e","s","/","b","a","s","i","c","s","/","r","e","a","d","m","e",".","m","d">>)
E_AsyncExtra == File_(<<"e","x","e","r","c","i","s","e","s","/","a","s","y","n","c","_","e","x","t","r","a","/","x",".","r","s">>)
E_Asynchronous == File_(<<"e","x","e","r","c","i","s","e","s","/","a","s","y","n","c","h","r","o","n","o","u","s",".","r","s">>)
E_DirRs == Dir_(<<"e","x","e","r","c","i","s","e","s","/","o","l","d",".","r","s">>)
E_HiddenRs == File_(<<"e","x","e","r","c","i","s","e","s","/",".","r","s">>)
E_UpperRs == File_(<<"e","x","e","r","c","i","s","e","s","/","b",".","R","S">>)
E_NoExt == File_(<<"e","x","e","r","c","i","s","e","s","/","M","a","k","e","f","i","l","e">>)

\* The trees explored, each entry under the path glob yields for it: the
\* pattern's leading "./" is not part of a yielded path.
Trees ==
    { {},
      {E_AsyncDir, E_AsyncFoo},
      {E_AsyncExtra, E_Asynchronous},
      {E_DirRs, E_BasicsBar},
      {E_AsyncFoo, E_BasicsBar, E_Readme},
      {E_HiddenRs, E_UpperRs, E_NoExt} }

\* documents handed to serde_json::from_str: a unit whose dependency index
\* is outside crates, and a unit of another edition without cfg
JsonDocs ==
    { [sysroot_src |-> <<"/","x">>,
       crates |-> << [root_module |-> <<"e","x","e","r","c","i","s","e","s","/","a",".","r","s">>, edition |-> "2021",
                      deps |-> <<[crate |-> 7, name |-> "tokio"]>>,
                      cfg |-> <<"test">>] >>],
      [sysroot_src |-> <<"/","x">>,
       crates |-> << [root_module |-> <<"e","x","e","r","c","i","s","e","s","/","a",".","r","s">>, edition |-> "2018",
                      deps |-> <<>>, cfg |-> <<>>] >>] }

\* what a caller may store through the public field: crates.clear()
FieldWrites(cs) == {<<>>}

GlobOk(e) == [err |-> FALSE, path |-> e.path, is_dir |-> e.is_dir]
GlobErr == [err |-> TRUE, path |-> <<>>, is_dir |-> FALSE]

\* the characters of the names in the trees, in the order of their bytes
CharOrder == <<"-",".","/","0","1","2","3","4","5","6","7","8","9","A","B","C","D","E","F","G","H","I","J","K","L","M","N","O","P","Q","R","S","T","U","V","W","X","Y","Z","_","a","b","c","d","e","f","g","h","i","j","k","l","m","n","o","p","q","r","s","t","u","v","w","x","y","z">>
Ord(c) == CHOOSE i \in DOMAIN CharOrder : CharOrder[i] = c

\* a < b for two file names, compared as their bytes (OsStr::cmp)
RECURSIVE NameLess(_, _)
NameLess(a, b) ==
    IF b = <<>> THEN FALSE
    ELSE IF a = <<>> THEN TRUE
    ELSE IF Head(a) = Head(b) THEN NameLess(Tail(a), Tail(b))
    ELSE Ord(Head(a)) < Ord(Head(b))

\* p is yielded before q: glob walks the tree depth first, a directory
\* before its children, the children of a directory sorted by file name
RECURSIVE ComponentsLess(_, _)
ComponentsLess(p, q) ==
    IF q = <<>> THEN FALSE
    ELSE IF p = <<>> THEN TRUE
    ELSE IF Head(p) = Head(q) THEN ComponentsLess(Tail(p), Tail(q))
    ELSE NameLess(Head(p), Head(q))

YieldedBefore(e, f) == ComponentsLess(SplitSep(e.path, 1), SplitSep(f.path, 1))

\* the entries of t in the order glob yields them
GlobOrder(t) ==
    [i \in 1..Cardinality(t) |->
        CHOOSE e \in t : Cardinality({f \in t : YieldedBefore(f, e)}) = i - 1]

\* glob that yields the entries in whatever order the directory is read
Orders_AnyOrder(t) ==
    {s \in [1..Cardinality(t) -> t] : \A i, j \in DOMAIN s : i # j => s[i] # s[j]}

\* the orders in which glob may yield the entries of t: the sorted one
Orders(t) == {GlobOrder(t)}

InsertAt(s, k, x) == SubSeq(s, 1, k - 1) \o <<x>> \o SubSeq(s, k, Len(s))

\* what glob("./exercises/**/*") may yield: the entries in glob's order, with
\* at most one unreadable entry (GlobError) somewhere in the iteration
Scans(t) ==
    LET clean == {[i \in DOMAIN o |-> GlobOk(o[i])] : o \in Orders(t)}
    IN  clean \cup {InsertAt(s, k, GlobErr) : s \in clean, k \in 1..(Cardinality(t) + 1)}

----------------------------------------------------------------------------
(* The state machine. *)

Call(op, ok, spawned) ==
    [op |-> op, ok |-> ok, spawned |-> spawned, panicked |-> FALSE, printed |-> <<>>,
     replaced |-> FALSE]

\* RustAnalyzerProject::new()
InitDoc ==
    /\ sysroot_src = <<>>
    /\ cargo_tokio = <<>>
    /\ crates = <<>>
    /\ nscan = 0
    /\ scanned = <<>>
    /\ by_methods = TRUE
    /\ last = Call("new", TRUE, FALSE)

\* serde_json::from_str::<RustAnalyzerProject>(doc), the derived constructor:
\* the fields of doc, cargo_tokio (serde(skip)) empty
FromJson ==
    /\ \E doc \in JsonDocs :
        /\ sysroot_src = doc.sysroot_src
        /\ crates = FromJsonCrates(doc.crates)
    /\ cargo_tokio = <<>>
    /\ nscan = 0
    /\ scanned = <<>>
    /\ by_methods = FALSE
    /\ last = Call("from_json", TRUE, FALSE)

InitWorld(rust_src_paths, homes, rustcs, trees) ==
    /\ env \in [RUST_SRC_PATH : rust_src_paths, HOME : homes]
    /\ rustc \in rustcs
    /\ tree \in trees
    /\ disk = NoFile
    /\ nrun = 1

GetSysrootSrc ==
    \E out \in ProgramStdouts :
    LET r == get_sysroot_src(sysroot_src, env, rustc, out)
    IN  /\ sysroot_src' = r.sysroot_src
        /\ last' = [Call("get_sysroot_src", r.ok, r.spawned)
                        EXCEPT !.panicked = r.panicked, !.printed = r.printed]
        /\ UNCHANGED <<env, rustc, tree, cargo_tokio, crates, disk, nscan, nrun, scanned, by_methods>>

GetCargoTokioPath ==
    /\ cargo_tokio' = get_cargo_tokio_path(env)
    /\ last' = Call("get_cargo_tokio_path", TRUE, FALSE)
    /\ UNCHANGED <<env, rustc, tree, sysroot_src, crates, disk, nscan, nrun, scanned, by_methods>>

ExercisesToJson ==
    /\ nscan < MaxScans
    /\ \E items \in Scans(tree) :
        LET r == exercises_to_json(crates, cargo_tokio, items)
        IN  /\ crates' = r.crates
            /\ scanned' = items
            /\ last' = Call("exercises_to_json", r.ok, FALSE)
    /\ nscan' = nscan + 1
    /\ UNCHANGED <<env, rustc, tree, sysroot_src, cargo_tokio, disk, nrun, by_methods>>

\* write_to_disk: std::fs::write opens and truncates the file, then writes
\* the bytes.  It replaces the file, or fails to open it and leaves it as it
\* was, or fails while writing and leaves a prefix of the new document.
WriteToDisk ==
    /\ \E outcome \in {"written", "open_failed", "write_failed"} :
        /\ disk' = CASE outcome = "written" -> File(ToJson(sysroot_src, crates))
                      [] outcome = "open_failed" -> disk
                      [] outcome = "write_failed" -> Torn
        /\ last' = [Call("write_to_disk", outcome = "written", FALSE)
                        EXCEPT !.replaced = (outcome = "written" /\ disk.whole)]
    /\ UNCHANGED <<env, rustc, tree, sysroot_src, cargo_tokio, crates, nscan, nrun,
                   scanned, by_methods>>

\* a caller's store through `pub crates`
SetCrates ==
    /\ \E cs \in FieldWrites(crates) :
        /\ cs # crates
        /\ crates' = cs
    /\ by_methods' = FALSE
    /\ last' = Call("set_crates", TRUE, FALSE)
    /\ UNCHANGED <<env, rustc, tree, sysroot_src, cargo_tokio, disk, nscan, nrun, scanned>>

(* The public operations of one object, called in any order, and the store *)
(* a caller may make through the pub field.  The object comes from new()   *)
(* or from the derived Deserialize.                                        *)

Init ==
    \/ /\ InitWorld({SetTo(FAKE_SYSROOT)}, {SetTo(<<"/","h">>)}, {Spawned(0, <<"/","r","\n">>)}, Trees)
       /\ InitDoc
    \/ /\ InitWorld({SetTo(FAKE_SYSROOT)}, {SetTo(<<"/","h">>)}, {Spawned(0, <<"/","r","\n">>)},
                    {{E_AsyncDir, E_AsyncFoo}})
       /\ FromJson

Next ==
    \/ GetSysrootSrc
    \/ GetCargoTokioPath
    \/ ExercisesToJson
    \/ WriteToDisk
    \/ SetCrates

Spec == Init /\ [][Next]_vars

(* The same operations in every environment, over the empty tree. *)

InitEnv ==
    \/ /\ InitWorld(RustSrcPaths, Homes, Rustcs, {{}})
       /\ InitDoc
    \/ /\ InitWorld({Unset, SetTo(FAKE_SYSROOT)}, {Unset}, {NotSpawned, Spawned(0, <<"/","r","\n">>)}, {{}})
       /\ FromJson

SpecEnv == InitEnv /\ [][Next]_vars

(* The generator's run as its caller drives it: resolve the sysroot, resolve  *)
(* the tokio path, scan, write; any failure ends the run; then the next run,  *)
(* in the same environment over the same tree, starts with a new object.      *)

MainResolve == last.op = "new" /\ GetSysrootSrc

MainTokio == last.op = "get_sysroot_src" /\ last.ok /\ GetCargoTokioPath

MainScan == last.op = "get_cargo_tokio_path" /\ ExercisesToJson

MainWrite == last.op = "exercises_to_json" /\ last.ok /\ WriteToDisk

MainRerun ==
    /\ last.op = "write_to_disk" \/ ~last.ok
    /\ nrun < MaxRuns
    /\ nrun' = nrun + 1
    /\ sysroot_src' = <<>>
    /\ cargo_tokio' = <<>>
    /\ crates' = <<>>
    /\ nscan' = 0
    /\ scanned' = <<>>
    /\ by_methods' = TRUE
    /\ last' = Call("new", TRUE, FALSE)
    /\ UNCHANGED <<env, rustc, tree, disk>>

InitMain ==
    /\ InitWorld({Unset, SetTo(FAKE_SYSROOT)}, Homes, {NotSpawned, Spawned(0, <<"/","r","\n">>)}, Trees)
    /\ InitDoc

NextMain ==
    \/ MainResolve
    \/ MainTokio
    \/ MainScan
    \/ MainWrite
    \/ MainRerun

SpecMain == InitMain /\ [][NextMain]_vars

----------------------------------------------------------------------------
(* Vocabulary of the properties. *)

\* a unit path_to_json made: it carries the baseline cfg
IsDiscovered(c) == c.cfg = TEST_CFG

\* a unit with the twelve tokio feature flags as its cfg, in any order
IsSynthetic(c) == Len(c.cfg) = Len(TOKIO_CFG) /\ Range(c.cfg) = Range(TOKIO_CFG)

ASYNC_DIR == <<"e","x","e","r","c","i","s","e","s","/","a","s","y","n","c","/">>
DOT_SLASH == <<".","/">>

\* the path names something inside exercises/async/, written with or without
\* a leading "./"
UnderAsyncSubtree(p) ==
    \/ StartsWith(p, ASYNC_DIR)
    \/ StartsWith(p, DOT_SLASH \o ASYNC_DIR)

TokioDep == <<DepData(0, "tokio")>>

\* the latest call was a successful first exercises_to_json of an object
\* that came from new() and that only its methods changed
FirstScanDone == by_methods /\ last.op = "exercises_to_json" /\ last.ok /\ nscan = 1

\* the units after the synthetic one
Discovered(cs) == SubSeq(cs, 2, Len(cs))

\* the items glob yielded before its first error
RECURSIVE BeforeError(_)
BeforeError(items) ==
    IF items = <<>> \/ Head(items).err THEN <<>>
    ELSE <<Head(items)>> \o BeforeError(Tail(items))

RootModules(cs) == [i \in DOMAIN cs |-> cs[i].root_module]
Paths(items) == [i \in DOMAIN items |-> items[i].path]

IsRsFile(item) == ~item.is_dir /\ extension(item.path) = Some(RS)
IsRsPath(item) == extension(item.path) = Some(RS)

----------------------------------------------------------------------------
(* C1 *)

\* C1: every unit exercises_to_json discovered inside exercises/async/ has
\* exactly one dependency, index 0, name "tokio", in whichever form (with or
\* without a leading "./") glob yielded its path.
C1_AsyncDepAnyForm ==
    by_methods =>
        \A i \in DOMAIN crates :
            IsDiscovered(crates[i]) /\ UnderAsyncSubtree(crates[i].root_module)
                => crates[i].deps = TokioDep

C1_Witness ==
    /\ FirstScanDone
    /\ \E i \in DOMAIN crates :
        /\ crates[i].root_module = E_AsyncFoo.path
        /\ crates[i].deps = TokioDep

----------------------------------------------------------------------------
(* C2 *)

\* C2: every unit exercises_to_json discovered outside exercises/async/ has no dependency,
\* also when its path merely begins with the letters "exercises/async".
C2_OutsideNoDeps ==
    by_methods =>
        \A i \in DOMAIN crates :
            IsDiscovered(crates[i]) /\ ~UnderAsyncSubtree(crates[i].root_module)
                => crates[i].deps = <<>>

----------------------------------------------------------------------------
(* C3 *)

\* exactly one synthetic unit, first, without dependencies
OneSyntheticFirst(cs) ==
    /\ Cardinality({i \in DOMAIN cs : IsSynthetic(cs[i])}) = 1
    /\ IsSynthetic(cs[1])
    /\ cs[1].deps = <<>>

\* C3 as stated: whatever number of exercises_to_json calls (one or more)
\* were made on an object from new(), the document write_to_disk wrote has
\* exactly one synthetic unit, first, with no dependencies and the twelve
\* feature flags.
C3_OneSyntheticAnyCalls ==
    by_methods /\ last.op = "write_to_disk" /\ last.ok /\ nscan >= 1
        => OneSyntheticFirst(disk.json.crates)

\* C3 amended: the document write_to_disk wrote after exactly one
\* exercises_to_json call (failed or not) on an object from new() that only
\* its methods changed has exactly one synthetic unit, first, with no
\* dependencies and the twelve feature flags.
C3_OneSyntheticOneCall ==
    by_methods /\ last.op = "write_to_disk" /\ last.ok /\ nscan = 1
        => OneSyntheticFirst(disk.json.crates)

C3_Witness ==
    /\ by_methods /\ last.op = "write_to_disk" /\ last.ok /\ nscan = 1
    /\ Len(disk.json.crates) = 3
    /\ OneSyntheticFirst(disk.json.crates)

----------------------------------------------------------------------------
(* C4 *)

\* every dependency of the serialized document points at the synthetic unit
Resolves(json_crates) ==
    \A i \in DOMAIN json_crates :
        \A j \in DOMAIN json_crates[i].deps :
            LET d == json_crates[i].deps[j].crate
            IN  /\ 0 <= d
                /\ d < Len(json_crates)
                /\ IsSynthetic(json_crates[d + 1])

\* C4: for an object that came from new() and that only its methods
\* changed, in the document as write_to_disk would serialize it now, and in
\* the one it just wrote, every dependency index is within crates and names
\* the synthetic unit.
C4_DepsResolve ==
    by_methods
        => /\ Resolves(ToJson(sysroot_src, crates).crates)
           /\ last.op = "write_to_disk" /\ last.ok => Resolves(disk.json.crates)

C4_Witness ==
    /\ by_methods /\ last.op = "write_to_disk" /\ last.ok
    /\ disk.whole
    /\ nscan = 2
    /\ Len(disk.json.crates) >= 4
    /\ \E i \in DOMAIN disk.json.crates : i > 2 /\ disk.json.crates[i].deps # <<>>

----------------------------------------------------------------------------
(* C5 *)

\* RUST_SRC_PATH is set to a non-empty value
RustSrcPathGiven ==
    /\ env.RUST_SRC_PATH.set
    /\ env.RUST_SRC_PATH.val # <<>>

\* C5: with RUST_SRC_PATH set to a non-empty value, get_sysroot_src returns
\* Ok, sysroot_src is that value, and rustc was not spawned, whatever rustc
\* would have done.
C5_OverrideAnyValue ==
    last.op = "get_sysroot_src" /\ RustSrcPathGiven
        => /\ last.ok
           /\ ~last.spawned
           /\ sysroot_src = env.RUST_SRC_PATH.val

\* C5 for the values that are valid Unicode, which holds: with RUST_SRC_PATH
\* set to a non-empty string, get_sysroot_src returns Ok, sysroot_src is that
\* string, and rustc was not spawned; a value that is not valid Unicode is
\* not taken and rustc is spawned.
C5_OverrideVerbatim ==
    last.op = "get_sysroot_src" /\ RustSrcPathGiven
        => IF BadByte \notin Range(env.RUST_SRC_PATH.val)
           THEN /\ last.ok
                /\ ~last.spawned
                /\ sysroot_src = env.RUST_SRC_PATH.val
           ELSE last.spawned

C5_Witness ==
    /\ last.op = "get_sysroot_src"
    /\ RustSrcPathGiven
    /\ ~rustc.spawns
    /\ sysroot_src = FAKE_SYSROOT

----------------------------------------------------------------------------
(* C6 *)

\* C6: with RUST_SRC_PATH unset or empty, get_sysroot_src spawns rustc, and
\* when rustc prints a token and the call returns, sysroot_src is that token
\* joined with lib/rustlib/src/rust/library.
C6_OverrideOnlyNonEmpty ==
    last.op = "get_sysroot_src"
    /\ (~env.RUST_SRC_PATH.set \/ env.RUST_SRC_PATH.val = <<>>)
        => /\ last.spawned
           /\ rustc.spawns /\ FirstToken(rustc.stdout).some /\ ~last.panicked
                => sysroot_src = JoinAll(FirstToken(rustc.stdout).val, SYSROOT_SEGMENTS)

\* C6, the unset half, which holds: with RUST_SRC_PATH unset,
\* get_sysroot_src spawns rustc, and when rustc prints a token: the call
\* either prints the line with the token (or nothing, the standard output
\* being closed) and sets sysroot_src to the token joined with
\* lib/rustlib/src/rust/library, or panics at println! having printed less
\* than the line.
C6_UnsetQueriesToolchain ==
    last.op = "get_sysroot_src" /\ ~env.RUST_SRC_PATH.set
        => /\ last.spawned
           /\ rustc.spawns /\ FirstToken(rustc.stdout).some
                => LET line == ToolchainLine(FirstToken(rustc.stdout).val)
                   IN  \/ /\ ~last.panicked /\ last.ok
                          /\ last.printed \in {line, <<>>}
                          /\ sysroot_src = JoinAll(FirstToken(rustc.stdout).val, SYSROOT_SEGMENTS)
                       \/ /\ last.panicked /\ ~last.ok
                          /\ last.printed # line
                          /\ StartsWith(line, last.printed)

----------------------------------------------------------------------------
(* C7 *)

\* C7: after one successful exercises_to_json on a new object, the units
\* after the synthetic one are the yielded paths that are files with the rs
\* extension, in the order yielded.
C7_UnitsAreRsFiles ==
    FirstScanDone
        => /\ IsSynthetic(crates[1])
           /\ RootModules(Discovered(crates)) = Paths(SelectSeq(scanned, IsRsFile))

\* C7 without the file test, which holds: after one successful
\* exercises_to_json on a new object, the units after the synthetic one are
\* the yielded paths with the rs extension, directories included, in the
\* order yielded.
C7_UnitsAreRsPaths ==
    FirstScanDone
        => /\ IsSynthetic(crates[1])
           /\ RootModules(Discovered(crates)) = Paths(SelectSeq(scanned, IsRsPath))

----------------------------------------------------------------------------
(* C8 *)

----------------------------------------------------------------------------
(* C9 *)

\* C9 as stated: after a failed first exercises_to_json the document holds
\* no unit of the aborted scan.
C9_NoUnitsAfterFailure ==
    by_methods /\ last.op = "exercises_to_json" /\ ~last.ok /\ nscan = 1
        => \A i \in DOMAIN crates : ~IsDiscovered(crates[i])

\* the units of the items that have the rs extension
UnitsOf(items) ==
    LET rs == SelectSeq(items, IsRsPath)
    IN  [i \in DOMAIN rs |->
            Crate(Lossy(rs[i].path), IF IsAsyncPath(rs[i].path) THEN TokioDep ELSE <<>>, TEST_CFG)]

\* C9 amended: a failing exercises_to_json appends the synthetic unit and the
\* units of the entries yielded before the failing one, processes no later
\* entry, and leaves ./rust-project.json as it was.
C9_FailureKeepsPrefix ==
    [][last'.op = "exercises_to_json" /\ ~last'.ok
        => /\ crates' = crates \o <<TokioCrate(cargo_tokio)>>
                               \o UnitsOf(BeforeError(scanned'))
           /\ disk' = disk]_vars

C9_Witness ==
    /\ by_methods
    /\ last.op = "exercises_to_json" /\ ~last.ok
    /\ Len(BeforeError(scanned)) = 1
    /\ Len(crates) = 2
    /\ IsDiscovered(crates[2])
    /\ \E k \in DOMAIN scanned : ~scanned[k].err /\ IsRsPath(scanned[k])
                                 /\ scanned[k].path # crates[2].root_module

----------------------------------------------------------------------------
(* C10 *)

\* C10: without the override, get_sysroot_src fails when rustc cannot be
\* spawned or exits with a failure, and, when it returns, succeeds with the
\* raw output when rustc exits normally and prints no token.
C10_ToolchainFailures ==
    last.op = "get_sysroot_src" /\ ~EnvVar(env.RUST_SRC_PATH).some
        => /\ (~rustc.spawns \/ rustc.status # 0) => ~last.ok
           /\ (rustc.spawns /\ rustc.status = 0 /\ ~FirstToken(rustc.stdout).some
                    /\ ~last.panicked)
                => /\ last.ok
                   /\ sysroot_src = JoinAll(Lossy(rustc.stdout), SYSROOT_SEGMENTS)

\* C10 without the exit status, which holds: without the override,
\* get_sysroot_src fails and leaves sysroot_src and crates as they were when
\* rustc cannot be spawned; when rustc prints no token it either succeeds with
\* the raw output or panics at println!; and a call that panics has spawned
\* rustc and leaves sysroot_src and crates as they were.
C10_SpawnFailureOnly ==
    [][last'.op = "get_sysroot_src" /\ ~EnvVar(env.RUST_SRC_PATH).some
        => /\ ~rustc.spawns
                => /\ ~last'.ok /\ ~last'.panicked
                   /\ sysroot_src' = sysroot_src /\ crates' = crates
           /\ (rustc.spawns /\ ~FirstToken(rustc.stdout).some /\ ~last'.panicked)
                => /\ last'.ok
                   /\ sysroot_src' = JoinAll(Lossy(rustc.stdout), SYSROOT_SEGMENTS)
           /\ last'.panicked
                => /\ ~last'.ok /\ last'.spawned
                   /\ sysroot_src' = sysroot_src /\ crates' = crates]_vars

====
